---- MODULE Spec2Model ----
(***************************************************************************)
(* CrawlemonMetaPlugin.identify: create_session, URL formatting,          *)
(* retrieve_data and the per-record normalisation, as a state machine.    *)
(*                                                                         *)
(* Text that the code inspects character by character (author and tag     *)
(* strings, pubdate strings, the query values, the URL template) is a     *)
(* sequence of one-character strings.  Three CJK characters are named:    *)
(* "fwc" is the full-width comma, "nian" "yue" "ri" are the year, month   *)
(* and day signs of the Chinese date formats.                             *)
(***************************************************************************)
EXTENDS Integers, Sequences, FiniteSets, TLC

VARIABLES
    prefs,          \* self.prefs: the configured options (read-only)
    title,          \* identify's title argument
    authors,        \* identify's authors argument
    isbn,           \* identifiers.get('isbn', '')
    pc,             \* position of identify
    raisedIn,       \* the step an uncaught exception left identify from
    session_id,     \* what create_session returned
    formatted_url,  \* the request_url template after .format
    sessResp,       \* the answer to the create_session request
    retrResp,       \* the answer to the retrieve request
    dataKind,       \* what retrieve_data returned: "None" or "list"
    data,           \* the list retrieve_data returned
    idx,            \* the loop position of `for item in data`
    net,            \* the requests sent, in order
    result_queue,   \* the records put on result_queue, in order
    log             \* log.error and log.warn calls, in order

vars == <<prefs, title, authors, isbn, pc, raisedIn, session_id, formatted_url,
          sessResp, retrResp, dataKind, data, idx, net, result_queue, log>>

----------------------------------------------------------------------------
(* Bounds of the model *)

MaxItems == 2

----------------------------------------------------------------------------
(* Python values: a field value is absent, a str, a list of str or None *)

NoneVal == "<None>"

Truthy(v) ==
    \/ v.t = "str" /\ v.s # <<>>
    \/ v.t = "list" /\ v.l # <<>>

Str(t) == [t |-> "str", s |-> t, l |-> <<>>]

List(t) == [t |-> "list", s |-> <<>>, l |-> t]

Absent == [t |-> "absent", s |-> <<>>, l |-> <<>>]

Null == [t |-> "null", s |-> <<>>, l |-> <<>>]

Contains(s, c) == \E i \in 1..Len(s) : s[i] = c

FirstIndex(s, c) == CHOOSE i \in 1..Len(s) : s[i] = c /\ \A j \in 1..(i-1) : s[j] # c

RECURSIVE Split(_, _)
Split(s, d) ==
    IF ~Contains(s, d) THEN <<s>>
    ELSE LET i == FirstIndex(s, d)
         IN  <<SubSeq(s, 1, i - 1)>> \o Split(SubSeq(s, i + 1, Len(s)), d)

IsSpace(c) == c \in {" ", "\t", "\n"}

RECURSIVE LStrip(_)
LStrip(s) == IF s # <<>> /\ IsSpace(Head(s)) THEN LStrip(Tail(s)) ELSE s

RECURSIVE RStrip(_)
RStrip(s) ==
    IF s # <<>> /\ IsSpace(s[Len(s)]) THEN RStrip(SubSeq(s, 1, Len(s) - 1)) ELSE s

Strip(s) == RStrip(LStrip(s))

----------------------------------------------------------------------------
(* urllib.parse.quote *)

QuoteChar(c) ==
    CASE c = " " -> <<"%", "2", "0">>
      [] c = "&" -> <<"%", "2", "6">>
      [] c = "?" -> <<"%", "3", "F">>
      [] OTHER   -> <<c>>

RECURSIVE quote(_)
quote(s) == IF s = <<>> THEN <<>> ELSE QuoteChar(Head(s)) \o quote(Tail(s))

----------------------------------------------------------------------------
(* datetime.strptime for the directives %Y %m %d and literal characters *)

DigitChars == <<"0", "1", "2", "3", "4", "5", "6", "7", "8", "9">>

IsDigit(c) == \E i \in 1..10 : DigitChars[i] = c

DigitVal(c) == (CHOOSE i \in 1..10 : DigitChars[i] = c) - 1

RECURSIVE Num(_)
Num(s) == IF s = <<>> THEN 0 ELSE 10 * Num(SubSeq(s, 1, Len(s) - 1)) + DigitVal(s[Len(s)])

NoDate == [ok |-> FALSE, y |-> 0, m |-> 0, d |-> 0]

IsLeap(y) == (y % 4 = 0 /\ y % 100 # 0) \/ y % 400 = 0

DaysInMonth(y, m) ==
    CASE m \in {4, 6, 9, 11} -> 30
      [] m = 2 -> IF IsLeap(y) THEN 29 ELSE 28
      [] OTHER -> 31

\* %Y is \d\d\d\d
YearLen(s) ==
    IF Len(s) >= 4 /\ \A i \in 1..4 : IsDigit(s[i]) THEN 4 ELSE 0

\* %m is 1[0-2]|0[1-9]|[1-9]
MonthLen(s) ==
    IF Len(s) >= 2 /\ s[1] = "1" /\ s[2] \in {"0", "1", "2"} THEN 2
    ELSE IF Len(s) >= 2 /\ s[1] = "0" /\ IsDigit(s[2]) /\ s[2] # "0" THEN 2
    ELSE IF Len(s) >= 1 /\ IsDigit(s[1]) /\ s[1] # "0" THEN 1
    ELSE 0

\* %d is 3[0-1]|[1-2]\d|0[1-9]|[1-9]| [1-9]
DayLen(s) ==
    IF Len(s) >= 2 /\ s[1] = "3" /\ s[2] \in {"0", "1"} THEN 2
    ELSE IF Len(s) >= 2 /\ s[1] \in {"1", "2"} /\ IsDigit(s[2]) THEN 2
    ELSE IF Len(s) >= 2 /\ s[1] = "0" /\ IsDigit(s[2]) /\ s[2] # "0" THEN 2
    ELSE IF Len(s) >= 1 /\ IsDigit(s[1]) /\ s[1] # "0" THEN 1
    ELSE IF Len(s) >= 2 /\ s[1] = " " /\ IsDigit(s[2]) /\ s[2] # "0" THEN 2
    ELSE 0

DayDigits(s, n) == IF s[1] = " " THEN SubSeq(s, 2, n) ELSE SubSeq(s, 1, n)

RECURSIVE Match(_, _, _)
Match(s, fmt, acc) ==
    IF fmt = <<>> THEN [acc EXCEPT !.ok = (s = <<>>)]
    ELSE LET f    == Head(fmt)
             n    == CASE f = "%Y" -> YearLen(s)
                       [] f = "%m" -> MonthLen(s)
                       [] f = "%d" -> DayLen(s)
                       [] OTHER    -> IF s # <<>> /\ Head(s) = f THEN 1 ELSE 0
             rest == SubSeq(s, n + 1, Len(s))
         IN  IF n = 0 THEN NoDate
             ELSE CASE f = "%Y" -> Match(rest, Tail(fmt), [acc EXCEPT !.y = Num(SubSeq(s, 1, n))])
                    [] f = "%m" -> Match(rest, Tail(fmt), [acc EXCEPT !.m = Num(SubSeq(s, 1, n))])
                    [] f = "%d" -> Match(rest, Tail(fmt), [acc EXCEPT !.d = Num(DayDigits(s, n))])
                    [] OTHER    -> Match(rest, Tail(fmt), acc)

\* a ValueError of strptime is ok = FALSE
strptime(s, fmt) ==
    LET r == Match(s, fmt, [ok |-> TRUE, y |-> 1900, m |-> 1, d |-> 1])
    IN  IF r.ok /\ r.y >= 1 /\ r.d <= DaysInMonth(r.y, r.m) THEN r ELSE NoDate

\* the slash layout with day and month exchanged
PubdateFormatsSwapped ==
    << <<"%Y", "-", "%m", "-", "%d">>,
       <<"%Y", "nian", "%m", "yue", "%d", "ri">>,
       <<"%Y", "nian", "%m", "yue">>,
       <<"%Y", "/", "%d", "/", "%m">>,
       <<"%Y", ".", "%m", ".", "%d">> >>

PubdateFormats ==
    << <<"%Y", "-", "%m", "-", "%d">>,
       <<"%Y", "nian", "%m", "yue", "%d", "ri">>,
       <<"%Y", "nian", "%m", "yue">>,
       <<"%Y", "/", "%m", "/", "%d">>,
       <<"%Y", ".", "%m", ".", "%d">> >>

RECURSIVE TryFormats(_, _)
TryFormats(s, fmts) ==
    IF fmts = <<>> THEN NoDate
    ELSE LET r == strptime(s, Head(fmts))
         IN  IF r.ok THEN r ELSE TryFormats(s, Tail(fmts))

ParsePubdate(pubdate_str) ==
    IF pubdate_str = <<>> THEN NoDate ELSE TryFormats(pubdate_str, PubdateFormats)

----------------------------------------------------------------------------
(* the authors / tags rule *)

HasDelimiter(s) == Contains(s, ",") \/ Contains(s, " ") \/ Contains(s, "fwc")

SplitField(v) ==
    CASE v.t = "str"  -> IF HasDelimiter(v.s) THEN Split(v.s, ",") ELSE <<v.s>>
      [] v.t = "list" -> v.l
      [] OTHER        -> <<>>

----------------------------------------------------------------------------
(* str.format with keyword arguments on the request_url template.  A      *)
(* template is a sequence of literal characters and replacement fields.   *)

KnownFields == {"{isbn}", "{title}", "{author}"}

NamedFields == KnownFields \cup {"{publisher}"}

PositionalFields == {"{}", "{0}"}

RECURSIVE Format(_, _)
Format(tpl, params) ==
    IF tpl = <<>> THEN [status |-> "ok", url |-> <<>>]
    ELSE LET tok == Head(tpl)
         IN  IF tok \in PositionalFields THEN [status |-> "IndexError", url |-> <<>>]
             ELSE IF tok \in NamedFields \ KnownFields
                  THEN [status |-> "KeyError", url |-> <<>>]
             ELSE LET rest == Format(Tail(tpl), params)
                      here == IF tok \in KnownFields THEN params[tok] ELSE <<tok>>
                  IN  IF rest.status = "ok"
                      THEN [status |-> "ok", url |-> here \o rest.url]
                      ELSE rest

format_params(i, t, a) ==
    [f \in KnownFields |->
        CASE f = "{isbn}"   -> IF Truthy(i) THEN quote(i.s) ELSE <<>>
          [] f = "{title}"  -> IF Truthy(t) THEN quote(t.s) ELSE <<>>
          [] f = "{author}" -> IF Truthy(a) /\ a.l[1] # <<>> THEN quote(a.l[1]) ELSE <<>>]

----------------------------------------------------------------------------
(* json.loads on the configured actions string *)

ActionsConfigs == {"[]", "[{}]", "{}", "[{", ""}

json_loads(s) ==
    CASE s = "[]"   -> [ok |-> TRUE, kind |-> "array", items |-> <<>>]
      [] s = "[{}]" -> [ok |-> TRUE, kind |-> "array", items |-> <<"{}">>]
      [] s = "{}"   -> [ok |-> TRUE, kind |-> "object", items |-> <<>>]
      [] OTHER      -> [ok |-> FALSE, kind |-> "none", items |-> <<>>]

EmptyList == [kind |-> "array", items |-> <<>>]

ParseActions(s) ==
    LET r == json_loads(s)
    IN  IF r.ok THEN [kind |-> r.kind, items |-> r.items] ELSE EmptyList

----------------------------------------------------------------------------
(* configurations and arguments *)

DefaultTemplate == <<"q", "=", "{isbn}", " ", "{title}", " ", "{author}">>

Templates ==
    {DefaultTemplate,
     <<"q", "=", "{title}">>,
     <<"q", "=", "{isbn}", "&", "p", "=", "{publisher}">>,
     <<"q", "=", "{}">>,
     <<"q", "=", "{isbn}", "{0}">>}

DefaultCmd == <<"g", "e", "t">>

Prefs(tpl, act, c) ==
    [api_key |-> "key", api_base_url |-> "https://crawlemon.fsotool.com/api/v1",
     request_url |-> tpl, max_items |-> -1, scroll_to_bottom |-> FALSE,
     actions |-> act, cmd |-> c]

PrefsSet ==
    {Prefs(tpl, "[]", DefaultCmd) : tpl \in Templates}
    \cup {Prefs(DefaultTemplate, act, c) : act \in ActionsConfigs, c \in {DefaultCmd, <<>>}}

Isbns == {Str(<<>>), Str(<<"1", "2", "3">>)}

Titles == {Null, Str(<<>>), Str(<<"G", "o">>)}

AuthorArgs == {Null, List(<< <<>> >>), List(<< <<"J", "a", "n", "e", " ", "D", "o", "e">> >>)}

Fields == <<"title", "authors", "isbn", "publisher", "pubdate", "comments", "tags">>

----------------------------------------------------------------------------
(* the remote service's answers *)

SessionIds == {NoneVal, "", "s1", "s2"}

SessionResponses ==
    {[kind |-> k, session_id |-> NoneVal] :
        k \in {"connection_error", "http_error", "bad_json", "no_session_id"}}
    \cup {[kind |-> "ok", session_id |-> s] : s \in SessionIds}

Item(k, ti, au, pd, tg, ib) ==
    [kind |-> k, title |-> ti, authors |-> au, isbn |-> ib, publisher |-> "P",
     pubdate |-> pd, comments |-> "", tags |-> tg]

A == <<"A">>

AB(d) == <<"A", d, "B">>

Items ==
    {Item("dict", "T1", List(<<A>>), Str(<<"2", "0", "2", "4", "-", "0", "5", "-", "1", "7">>),
          List(<<A, A>>), "9780131103627"),
     Item("other", "", Absent, Absent, Absent, ""),
     Item("dict", "T3", Absent, Null, Absent, ""),
     Item("dict", "T4", Str(AB(" ")), Str(<<"s", "o", "o", "n">>), Str(A), ""),
     Item("dict", "T5", Str(AB(",")), Absent, Str(AB("fwc")), "")}

SeqsUpTo(S, n) == UNION {[1..k -> S] : k \in 0..n}

RetrieveResponses ==
    {[kind |-> k, has_result |-> FALSE, result |-> <<>>] :
        k \in {"connection_error", "http_error", "bad_json", "ok"}}
    \cup {[kind |-> "ok", has_result |-> TRUE, result |-> r] : r \in SeqsUpTo(Items, MaxItems)}

----------------------------------------------------------------------------
(* requests and records *)

SessionRequest(p) ==
    [ep |-> "create_session", url |-> p.api_base_url,
     body |-> [api_key |-> p.api_key]]

RetrieveRequest(p, sid, query, url) ==
    [ep |-> "retrieve", url |-> p.api_base_url,
     body |-> [cmd |-> IF p.cmd # <<>> THEN p.cmd ELSE query.s,
               url |-> url, fields |-> Fields, session_id |-> sid,
               scroll_to_bottom |-> p.scroll_to_bottom, max_items |-> p.max_items,
               local |-> TRUE, actions |-> ParseActions(p.actions)]]

\* `if session_id is None` in place of `if not session_id`
SessionOkNotNone(sid) == sid # NoneVal

\* `if not session_id`
SessionOk(sid) == sid \notin {NoneVal, ""}

\* result['result'] in place of result.get('result', [])
retrieve_data_strict(r) ==
    CASE r.kind \in {"connection_error", "http_error"} -> [kind |-> "None", list |-> <<>>]
      [] r.kind = "bad_json"  -> [kind |-> "raise", list |-> <<>>]
      [] OTHER -> IF r.has_result THEN [kind |-> "list", list |-> r.result]
                  ELSE [kind |-> "raise", list |-> <<>>]

\* the value retrieve_data returns for an answer: URLError gives None, a body
\* that is not JSON leaves through JSONDecodeError, result.get('result', [])
retrieve_data(r) ==
    CASE r.kind \in {"connection_error", "http_error"} -> [kind |-> "None", list |-> <<>>]
      [] r.kind = "bad_json"  -> [kind |-> "raise", list |-> <<>>]
      [] OTHER -> [kind |-> "list", list |-> IF r.has_result THEN r.result ELSE <<>>]

Query(i, t) == IF Truthy(i) THEN i ELSE t

\* a pubdate value that has no .strip raises AttributeError
Raises(item) == item.pubdate.t \notin {"absent", "str"}

Normalize(item) ==
    [title |-> item.title, authors |-> SplitField(item.authors), isbn |-> item.isbn,
     publisher |-> item.publisher,
     pubdate |-> ParsePubdate(Strip(item.pubdate.s)),
     comments |-> item.comments, tags |-> SplitField(item.tags),
     identifiers |-> IF item.isbn # "" THEN {<<"isbn", item.isbn>>} ELSE {}]

----------------------------------------------------------------------------
(* identify *)

Init ==
    /\ prefs \in PrefsSet
    /\ title \in Titles
    /\ authors \in AuthorArgs
    /\ isbn \in Isbns
    /\ pc = "start"
    /\ raisedIn = "none"
    /\ session_id = NoneVal
    /\ formatted_url = <<>>
    /\ sessResp = [kind |-> "none", session_id |-> NoneVal]
    /\ retrResp = [kind |-> "none", has_result |-> FALSE, result |-> <<>>]
    /\ dataKind = "unset"
    /\ data = <<>>
    /\ idx = 0
    /\ net = <<>>
    /\ result_queue = <<>>
    /\ log = <<>>

CreateSession ==
    /\ pc = "start"
    /\ \E r \in SessionResponses :
        /\ sessResp' = r
        /\ net' = Append(net, SessionRequest(prefs))
        /\ IF r.kind \in {"connection_error", "http_error"}
           THEN /\ session_id' = NoneVal
                /\ log' = log \o <<"error:create_session", "error:no_session">>
                /\ pc' = "failed"
                /\ raisedIn' = raisedIn
           ELSE IF r.kind \in {"bad_json", "no_session_id"}
           THEN /\ pc' = "raised"
                /\ raisedIn' = "create_session"
                /\ UNCHANGED <<session_id, log>>
           ELSE /\ session_id' = r.session_id
                /\ raisedIn' = raisedIn
                /\ IF SessionOk(r.session_id)
                   THEN pc' = "session_created" /\ log' = log
                   ELSE pc' = "failed" /\ log' = Append(log, "error:no_session")
    /\ UNCHANGED <<prefs, title, authors, isbn, formatted_url, retrResp, dataKind, data,
                   idx, result_queue>>

FormatUrl ==
    /\ pc = "session_created"
    /\ LET r == Format(prefs.request_url, format_params(isbn, title, authors))
       IN  IF r.status = "ok"
           THEN /\ formatted_url' = r.url
                /\ pc' = "url_formatted"
                /\ UNCHANGED <<raisedIn, log>>
           ELSE IF r.status = "KeyError"
           THEN /\ pc' = "failed"
                /\ log' = Append(log, "error:url_format")
                /\ UNCHANGED <<raisedIn, formatted_url>>
           ELSE /\ pc' = "raised"
                /\ raisedIn' = "format"
                /\ UNCHANGED <<formatted_url, log>>
    /\ UNCHANGED <<prefs, title, authors, isbn, session_id, sessResp, retrResp, dataKind,
                   data, idx, net, result_queue>>

CheckQuery ==
    /\ pc = "url_formatted"
    /\ IF Truthy(Query(isbn, title))
       THEN pc' = "query_ok" /\ log' = log
       ELSE pc' = "failed" /\ log' = Append(log, "error:no_query")
    /\ UNCHANGED <<prefs, title, authors, isbn, raisedIn, session_id, formatted_url,
                   sessResp, retrResp, dataKind, data, idx, net, result_queue>>

RetrieveData ==
    /\ pc = "query_ok"
    /\ \E r \in RetrieveResponses :
        LET warned == IF json_loads(prefs.actions).ok THEN log
                      ELSE Append(log, "warn:actions")
            ret    == retrieve_data(r)
        IN  /\ retrResp' = r
            /\ net' = Append(net, RetrieveRequest(prefs, session_id, Query(isbn, title),
                                                  formatted_url))
            /\ IF ret.kind = "raise"
               THEN /\ pc' = "raised"
                    /\ raisedIn' = "retrieve_data"
                    /\ log' = warned
                    /\ UNCHANGED <<dataKind, data, idx>>
               ELSE /\ dataKind' = ret.kind
                    /\ data' = ret.list
                    /\ raisedIn' = raisedIn
                    /\ IF ret.kind = "None" \/ ret.list = <<>>
                       THEN /\ pc' = "failed"
                            /\ idx' = idx
                            /\ log' = IF ret.kind = "None"
                                      THEN warned \o <<"error:retrieve", "error:no_data">>
                                      ELSE Append(warned, "error:no_data")
                       ELSE /\ pc' = "normalizing"
                            /\ idx' = 1
                            /\ log' = warned
    /\ UNCHANGED <<prefs, title, authors, isbn, session_id, formatted_url, sessResp,
                   result_queue>>

ProcessItem ==
    /\ pc = "normalizing"
    /\ idx <= Len(data)
    /\ LET item == data[idx]
       IN  IF item.kind # "dict"
           THEN /\ idx' = idx + 1
                /\ UNCHANGED <<pc, raisedIn, result_queue, log>>
           ELSE IF Raises(item)
           THEN /\ pc' = "raised"
                /\ raisedIn' = "normalize"
                /\ UNCHANGED <<idx, result_queue, log>>
           ELSE LET mi == Normalize(item)
                IN  /\ result_queue' = Append(result_queue, mi)
                    /\ idx' = idx + 1
                    /\ log' = IF item.pubdate.t = "str" /\ Strip(item.pubdate.s) # <<>>
                                 /\ ~mi.pubdate.ok
                              THEN Append(log, "warn:pubdate") ELSE log
                    /\ UNCHANGED <<pc, raisedIn>>
    /\ UNCHANGED <<prefs, title, authors, isbn, session_id, formatted_url, sessResp,
                   retrResp, dataKind, data, net>>

Finish ==
    /\ pc = "normalizing"
    /\ idx > Len(data)
    /\ pc' = "done"
    /\ UNCHANGED <<prefs, title, authors, isbn, raisedIn, session_id, formatted_url,
                   sessResp, retrResp, dataKind, data, idx, net, result_queue, log>>

Next ==
    \/ CreateSession
    \/ FormatUrl
    \/ CheckQuery
    \/ RetrieveData
    \/ ProcessItem
    \/ Finish

Spec == Init /\ [][Next]_vars

----------------------------------------------------------------------------
(* The record normaliser on one raw record: identify after retrieve_data   *)
(* returned a one-record list, over a wider range of field values.         *)

Years == {1, 1999, 2024}

Months == {1, 2, 10, 12}

Days == {1, 9, 28, 29, 30, 31}

TwoDigits(n) == <<DigitChars[(n \div 10) + 1], DigitChars[(n % 10) + 1]>>

FourDigits(n) == TwoDigits(n \div 100) \o TwoDigits(n % 100)

\* the date y-m-d written in the k-th supported layout, zero padded
Render(k, y, m, d) ==
    CASE k = 1 -> FourDigits(y) \o <<"-">> \o TwoDigits(m) \o <<"-">> \o TwoDigits(d)
      [] k = 2 -> FourDigits(y) \o <<"nian">> \o TwoDigits(m) \o <<"yue">> \o TwoDigits(d) \o <<"ri">>
      [] k = 3 -> FourDigits(y) \o <<"nian">> \o TwoDigits(m) \o <<"yue">>
      [] k = 4 -> FourDigits(y) \o <<"/">> \o TwoDigits(m) \o <<"/">> \o TwoDigits(d)
      [] k = 5 -> FourDigits(y) \o <<".">> \o TwoDigits(m) \o <<".">> \o TwoDigits(d)

Padded(p, s) == IF p THEN <<" ">> \o s \o <<" ", "\n">> ELSE s

BadDates ==
    {<<"s", "o", "o", "n">>,
     <<"2", "0", "2", "4">>,
     <<"2", "0", "2", "4", "nian">>,
     <<"2", "0", "2", "4", "-", "1", "3", "-", "0", "1">>,
     <<"2", "0", "2", "4", "-", "0", "5", "/", "1", "7">>,
     <<"0", "5", "/", "1", "7", "/", "2", "0", "2", "4">>,
     <<"2", "4", "-", "0", "5", "-", "1", "7">>,
     <<"2", "0", "2", "4", "-", "0", "5", "-", "1", "7", "T", "0", "0">>,
     <<"2", "0", "2", "4", "0", "5", "1", "7">>}

PubdateStrings ==
    {Padded(p, Render(k, y, m, d)) :
        p \in BOOLEAN, k \in 1..5, y \in Years, m \in Months, d \in Days}
    \cup {Padded(p, s) : p \in BOOLEAN, s \in BadDates \cup {<<>>}}
    \cup {<<"2", "0", "2", "4", "-", "5", "-", "7">>}

PubdateValues == {Str(s) : s \in PubdateStrings} \cup {Absent, Null}

FieldStrings ==
    {A, AB(","), AB(" "), AB("fwc"), <<"A", ",", " ", "B">>, <<"A", " ", "B", "fwc", "C">>,
     <<"A", "fwc", "B", ",", "C">>, <<>>}

FieldValues == {Str(s) : s \in FieldStrings} \cup {Absent, List(<<A, AB(" ")>>)}

NormItems ==
    {Item("dict", "T", au, pd, tg, "") :
        au \in FieldValues, tg \in FieldValues, pd \in {Absent, Null}}
    \cup {Item("dict", "T", Absent, pd, Absent, "9780131103627") : pd \in PubdateValues}

InitNormalize ==
    /\ prefs = Prefs(DefaultTemplate, "[]", DefaultCmd)
    /\ title = Str(<<"G", "o">>)
    /\ authors = Null
    /\ isbn = Str(<<"1", "2", "3">>)
    /\ pc = "normalizing"
    /\ raisedIn = "none"
    /\ session_id = "s1"
    /\ formatted_url = Format(prefs.request_url, format_params(isbn, title, authors)).url
    /\ sessResp = [kind |-> "ok", session_id |-> "s1"]
    /\ \E item \in NormItems :
        /\ retrResp = [kind |-> "ok", has_result |-> TRUE, result |-> <<item>>]
        /\ data = <<item>>
    /\ dataKind = "list"
    /\ idx = 1
    /\ net = <<SessionRequest(prefs),
               RetrieveRequest(prefs, session_id, Query(isbn, title), formatted_url)>>
    /\ result_queue = <<>>
    /\ log = <<>>

NextNormalize ==
    \/ ProcessItem
    \/ Finish

SpecNormalize == InitNormalize /\ [][NextNormalize]_vars

----------------------------------------------------------------------------
(* Properties *)

Terminal == {"done", "failed", "raised"}

RetrieveSent == \E i \in DOMAIN net : net[i].ep = "retrieve"

CountEp(e) == Cardinality({i \in DOMAIN net : net[i].ep = e})

IsMapping(item) == item.kind = "dict"

Mappings(s) == SelectSeq(s, IsMapping)

TitlesOf(s) == [j \in 1..Len(s) |-> s[j].title]

\* the entries of data the loop has gone past
Done(s) == IF pc = "normalizing" THEN SubSeq(s, 1, idx - 1) ELSE s

\* C1: when session creation fails by a connection error, a non-2xx answer or
\* a body that is not JSON, create_session returns failure and identify
\* returns normally with nothing on the sink and no retrieve request sent.
C1_SessionFailureAborts ==
    sessResp.kind \in {"connection_error", "http_error", "bad_json"}
        => /\ pc = "failed"
           /\ session_id = NoneVal
           /\ result_queue = <<>>
           /\ ~RetrieveSent

\* C2: the records on the sink are, in source order, exactly the mapping
\* entries of the retrieved list: a mapping gives one record, a non-mapping
\* gives none and raises nothing, and later entries are still processed.
C2_OneRecordPerMapping ==
    (dataKind = "list" /\ data # <<>>)
        => /\ pc # "raised"
           /\ TitlesOf(result_queue) = TitlesOf(Mappings(Done(data)))

UnparseablePubdate(item) ==
    \/ item.pubdate.t = "null"
    \/ item.pubdate.t = "str" /\ item.pubdate.s \in BadDates

\* C3: a mapping whose pubdate is unparseable or of the wrong type is still
\* emitted, with the pubdate absent, and identify does not raise on it.
C3_MalformedFieldDegrades ==
    \A k \in 1..Len(data) :
        (IsMapping(data[k]) /\ UnparseablePubdate(data[k]) /\ pc \in Terminal \cup {"normalizing"}
         /\ (pc = "normalizing" => k < idx))
            => /\ raisedIn # "normalize"
               /\ \E j \in 1..Len(result_queue) :
                    /\ result_queue[j].title = data[k].title
                    /\ ~result_queue[j].pubdate.ok

PrioritySplit(s) ==
    IF Contains(s, ",") THEN Split(s, ",")
    ELSE IF Contains(s, " ") THEN Split(s, " ")
    ELSE IF Contains(s, "fwc") THEN Split(s, "fwc")
    ELSE <<s>>

\* C4: an authors or tags string is split on the highest-priority delimiter
\* it contains, comma before ASCII space before full-width comma, and is a
\* one-element list only when it contains none of them.
C4_PrioritySplit ==
    \A j \in 1..Len(result_queue) :
        LET src == Mappings(data)[j]
        IN  /\ src.authors.t = "str" => result_queue[j].authors = PrioritySplit(src.authors.s)
            /\ src.tags.t = "str" => result_queue[j].tags = PrioritySplit(src.tags.s)

GonePast == IF pc = "done" THEN Len(data) ELSE idx - 1

CalendarDays(y, m) ==
    IF m = 2 THEN (IF y = 2024 THEN 29 ELSE 28)
    ELSE IF m \in {4, 6, 9, 11} THEN 30 ELSE 31

\* C6: a pubdate string written in one of the five layouts, for a calendar
\* date, gives that year, month and day (day 1 for the year-month layout),
\* whatever whitespace surrounds it; an empty or all-whitespace string, an
\* absent pubdate and a string in none of the layouts give an absent date;
\* none of them raises and the record is emitted.
C6_PubdateFormats ==
    /\ raisedIn = "normalize" => data[idx].pubdate.t \notin {"str", "absent"}
    /\ Len(result_queue) = Len(Mappings(SubSeq(data, 1, GonePast)))
    /\ \A j \in 1..Len(result_queue) :
        LET src == Mappings(data)[j]
            raw == src.pubdate.s
            got == result_queue[j].pubdate
        IN  /\ \A k \in 1..5, y \in Years, m \in Months, d \in Days, p \in BOOLEAN :
                (src.pubdate.t = "str" /\ raw = Padded(p, Render(k, y, m, d))
                 /\ d <= CalendarDays(y, m))
                    => got = [ok |-> TRUE, y |-> y, m |-> m, d |-> IF k = 3 THEN 1 ELSE d]
            /\ (\A i \in 1..Len(raw) : IsSpace(raw[i])) => ~got.ok
            /\ (\E p \in BOOLEAN, s \in BadDates : raw = Padded(p, s)) => ~got.ok

C6_Witness ==
    /\ pc = "done"
    /\ Len(result_queue) = 1
    /\ result_queue[1].pubdate = [ok |-> TRUE, y |-> 2024, m |-> 2, d |-> 29]
    /\ data[1].pubdate.s = Padded(TRUE, Render(2, 2024, 2, 29))

\* C7: called with neither an ISBN nor a title, identify puts nothing on the
\* sink, sends no retrieve request and returns normally.
C7_NoQueryAborts ==
    (~Truthy(isbn) /\ ~Truthy(title))
        => /\ result_queue = <<>>
           /\ ~RetrieveSent
           /\ pc # "raised"

UnknownField(tpl) ==
    \E i \in 1..Len(tpl) : tpl[i] \in (NamedFields \ KnownFields) \cup PositionalFields

\* C8: a template with a replacement field other than isbn, title, author,
\* named or positional or empty, makes identify log the failure and return
\* normally, with no retrieve request and nothing on the sink.
C8_TemplateFailureReported ==
    (UnknownField(prefs.request_url) /\ sessResp.kind = "ok" /\ SessionOk(sessResp.session_id)
     /\ pc # "session_created")
        => /\ pc = "failed"
           /\ log # <<>> /\ log[Len(log)] = "error:url_format"
           /\ ~RetrieveSent
           /\ result_queue = <<>>

JsonArrays == {"[]", "[{}]"}

\* C9: the actions of the retrieve request body are always a list: the parsed
\* array when the configured string is a JSON array, the empty list otherwise.
C9_ActionsAlwaysList ==
    \A i \in DOMAIN net :
        net[i].ep = "retrieve"
            => LET a == net[i].body.actions
               IN  /\ a.kind = "array"
                   /\ prefs.actions \in JsonArrays => a.items = json_loads(prefs.actions).items
                   /\ prefs.actions \notin JsonArrays => a = EmptyList

Rank(p) ==
    CASE p = "start"           -> 0
      [] p = "session_created" -> 1
      [] p = "url_formatted"   -> 2
      [] p = "query_ok"        -> 3
      [] p = "normalizing"     -> 4
      [] OTHER                 -> 5

C10_State ==
    /\ CountEp("create_session") <= 1
    /\ CountEp("retrieve") <= 1
    /\ pc = "start" => net = <<>>
    /\ pc \in {"session_created", "url_formatted", "query_ok"}
        => Len(net) = 1 /\ net[1].ep = "create_session"
    /\ pc \in {"normalizing", "done"} => RetrieveSent /\ retrResp.kind = "ok"
    /\ RetrieveSent
        => /\ Len(net) = 2 /\ net[1].ep = "create_session" /\ net[2].ep = "retrieve"
           /\ sessResp.kind = "ok"
           /\ sessResp.session_id \notin {NoneVal, ""}
           /\ net[2].body.session_id = sessResp.session_id
           /\ net[2].body.url = formatted_url
    /\ result_queue # <<>> => RetrieveSent /\ retrResp.kind = "ok"

C10_Step ==
    /\ Rank(pc') >= Rank(pc)
    /\ (pc' # pc /\ pc # "normalizing") => Rank(pc') > Rank(pc)
    /\ pc \in Terminal => UNCHANGED <<pc, net, result_queue>>
    /\ pc' \in {"failed", "raised"} => result_queue' = result_queue
    /\ result_queue' # result_queue
        => /\ pc = "normalizing" /\ retrResp.kind = "ok"
           /\ Len(result_queue') = Len(result_queue) + 1
           /\ net' = net

\* C10: one identify invocation goes create_session, URL formatting,
\* retrieve, per-record emission, done, with no way back: at most one request
\* of each kind, the retrieve request only after a non-empty session id and
\* carrying it, no record before the retrieve answer, and after a failed step
\* no further request and no further record.
C10_LinearOrder == []C10_State /\ [][C10_Step]_vars

C10_Witness ==
    /\ pc = "done"
    /\ Len(net) = 2
    /\ Len(result_queue) = 2

====
